---- MODULE Spec2Model ----
(***************************************************************************)
(* IPI multiplexer (ipi-mux): several virtual IPIs over one parent IPI.    *)
(*                                                                         *)
(* The per-CPU word ipi_mux_bits is modelled as the set of its set bit     *)
(* numbers.  Every atomic memory operation of ipi_mux_send_mask() and      *)
(* ipi_mux_process() is one step; the smp_mb*() barriers around them make  *)
(* the interleaving of these steps sequentially consistent.                *)
(* ipi_mux_create() runs at bring-up and is one step.                      *)
(* Functions of the generic irq layer (irq_domain_add_linear,              *)
(* __irq_domain_alloc_irqs, generic_handle_domain_irq) are the environment:*)
(* their results are inputs chosen from small sets.                        *)
(***************************************************************************)
EXTENDS Integers, FiniteSets, Sequences, TLC

\* ---- bounds of the model ----
NrCpus == 2
IPI_MUX_NR_IRQS == 2
MaxSends == 2
MaxCreates == 3
\* width of a rate: the driver's u64 and unsigned long, scaled down
RateBits == 3
\* width of the divisor of do_div(): its u32, scaled down
DivBits == 2

CPUS == 0 .. (NrCpus - 1)
Lines == 0 .. (IPI_MUX_NR_IRQS - 1)

\* a NULL pointer / no domain
NULL == 0

\* struct ipi_mux_ops: a pointer (present or NULL) to two optional callbacks
NoOps == [present |-> FALSE, ipi_mux_send |-> FALSE, ipi_mux_clear |-> FALSE]
OpsValues ==
  {NoOps} \cup [present : {TRUE}, ipi_mux_send : BOOLEAN, ipi_mux_clear : BOOLEAN]

\* values of the parent_virq argument: 0 (no parent) or a real Linux irq
ParentVirqs == {0, 7}

\* results of __irq_domain_alloc_irqs(): -ENOMEM, 0, or the first virq
AllocResults == {-12, 0, 3, 10}


VARIABLES
  ipi_mux_parent_virq,  \* static unsigned int ipi_mux_parent_virq
  ipi_mux_domain,       \* static struct irq_domain *ipi_mux_domain (NULL or id)
  ipi_mux_ops,          \* static const struct ipi_mux_ops *ipi_mux_ops
  ipi_mux_bits,         \* DEFINE_PER_CPU(unsigned long, ipi_mux_bits)
  live_domains,         \* irq domains added and not removed
  virq_of,              \* hwirq -> virq entries made by irq_domain_set_info()
  chained_handler,      \* the irqs whose chained handler is ipi_mux_handler
  cpuhp_hooks,          \* starting/dying callbacks registered
  irq_enabled,          \* per CPU: parent irq enabled by enable_percpu_irq()
  hw_pending,           \* per CPU: the parent IPI is asserted
  online,               \* per CPU: between its starting and its dying transition
  start_mask,           \* history: the pending word of a CPU as it was when the
                        \* CPU last came up, until the CPU drains or goes down
  create_log,           \* one record per ipi_mux_create() call: its arguments,
                        \* the path it took and the value it returned
  spc, sline, smask, stodo,   \* ipi_mux_send_mask() running on a CPU
  dpc, irqs, entered_by,      \* ipi_mux_process() running on a CPU
  nsend,                \* history: sends of line v begun with CPU c in the mask
  sdone,                \* history: <<line, mask>> of the sends to c that returned
  sent_at_entry,        \* history: sdone[c] when the running drain was entered
  ncalls,               \* history: generic_handle_domain_irq() calls on c for v
  last_snap,            \* history: value the xchg() of the running drain returned
  did,                  \* history: dispatch calls per line in the running drain
  failed,               \* history: lines whose dispatch failed in the running drain
  warned,               \* history: lines warned about in the running drain
  inflight,             \* history: bits set on c and in no snapshot yet
  raced,                \* history: lines set on c while another send to c
                        \* ran, since the last drain of c returned
  clk_type,             \* struct sbi_clk: type
  min_rate, max_rate, step_size,   \* struct sbi_clk: rates.range
  rate,                 \* argument of sbi_clk_round_rate()
  round_pc, round_ret   \* sbi_clk_round_rate(): called or not, and its result

vars ==
  << ipi_mux_parent_virq, ipi_mux_domain, ipi_mux_ops, ipi_mux_bits,
     live_domains, virq_of, chained_handler, cpuhp_hooks, irq_enabled,
     hw_pending, online, start_mask, create_log, spc, sline, smask, stodo, dpc, irqs, entered_by,
     nsend, sdone, sent_at_entry, ncalls, last_snap,
     did, failed, warned, inflight, raced,
     clk_type, min_rate, max_rate, step_size, rate, round_pc, round_ret >>

clkVars ==
  << clk_type, min_rate, max_rate, step_size, rate, round_pc, round_ret >>

createVars ==
  << ipi_mux_parent_virq, ipi_mux_domain, ipi_mux_ops, live_domains, virq_of,
     chained_handler, cpuhp_hooks, irq_enabled, create_log >>

hotplugVars == << online, start_mask >>

sendVars == << spc, sline, smask, stodo, nsend, sdone >>

drainVars ==
  << dpc, irqs, entered_by, sent_at_entry, ncalls,
     last_snap, did, failed, warned >>

NoMap == [i \in {} |-> 0]

\* nothing sent, nothing drained: the zero-initialised per-CPU words
QuietInit ==
  /\ ipi_mux_bits = [c \in CPUS |-> {}]
  /\ spc = [c \in CPUS |-> "idle"]
  /\ sline = [c \in CPUS |-> 0]
  /\ smask = [c \in CPUS |-> {}]
  /\ stodo = [c \in CPUS |-> {}]
  /\ dpc = [c \in CPUS |-> "idle"]
  /\ irqs = [c \in CPUS |-> {}]
  /\ entered_by = [c \in CPUS |-> "none"]
  /\ nsend = [c \in CPUS |-> [v \in Lines |-> 0]]
  /\ sdone = [c \in CPUS |-> {}]
  /\ sent_at_entry = [c \in CPUS |-> {}]
  /\ ncalls = [c \in CPUS |-> [v \in Lines |-> 0]]
  /\ last_snap = [c \in CPUS |-> {}]
  /\ did = [c \in CPUS |-> [v \in Lines |-> 0]]
  /\ failed = [c \in CPUS |-> {}]
  /\ warned = [c \in CPUS |-> {}]
  /\ inflight = [c \in CPUS |-> {}]
  /\ raced = [c \in CPUS |-> {}]

\* enum { SBI_CLK_TYPE_RANGE, SBI_CLK_TYPE_DISCRETE }
SBI_CLK_TYPE_RANGE == 0
SBI_CLK_TYPE_DISCRETE == 1

\* no clock registered, sbi_clk_round_rate() not called
ClkQuiet ==
  /\ clk_type = SBI_CLK_TYPE_RANGE
  /\ min_rate = 0
  /\ max_rate = 0
  /\ step_size = 0
  /\ rate = 0
  /\ round_pc = "idle"
  /\ round_ret = 0

\* the zero-initialised statics of ipi-mux, before any ipi_mux_create()
StaticsInit ==
  /\ ipi_mux_parent_virq = 0
  /\ ipi_mux_domain = NULL
  /\ ipi_mux_ops = NoOps
  /\ live_domains = {}
  /\ virq_of = NoMap
  /\ chained_handler = {}
  /\ cpuhp_hooks = FALSE
  /\ irq_enabled = [c \in CPUS |-> FALSE]
  /\ create_log = << >>
  /\ hw_pending = [c \in CPUS |-> FALSE]
  /\ online = [c \in CPUS |-> TRUE]
  /\ start_mask = [c \in CPUS |-> {}]
  /\ QuietInit

\* the state at boot
BootInit == StaticsInit /\ ClkQuiet

\* ---------------------------------------------------------------------------
\* Controller creation
\* ---------------------------------------------------------------------------

\* ipi_mux_domain_map(): irq_domain_set_info(d, irq, hwirq, ...) records that
\* Linux irq `irq` is hardware line `hwirq` of the domain
ipi_mux_domain_map(map, irq, hwirq) ==
  [h \in (DOMAIN map) \cup {hwirq} |-> IF h = hwirq THEN irq ELSE map[h]]

\* a faulty loop that maps every hwirq to the first Linux irq
RECURSIVE ipi_mux_domain_alloc_loop_same_virq(_, _, _, _, _)
ipi_mux_domain_alloc_loop_same_virq(map, virq, hwirq, i, nr_irqs) ==
  IF i < nr_irqs
  THEN ipi_mux_domain_alloc_loop_same_virq(
         [h \in (DOMAIN map) \cup {hwirq + i} |->
            IF h = hwirq + i THEN virq ELSE map[h]],
         virq, hwirq, i + 1, nr_irqs)
  ELSE map

\* ipi_mux_domain_alloc(): for (i = 0; i < nr_irqs; i++) map virq + i to
\* hwirq + i, where hwirq is fwspec->param[0] (irq_domain_translate_onecell)
RECURSIVE ipi_mux_domain_alloc_loop(_, _, _, _, _)
ipi_mux_domain_alloc_loop(map, virq, hwirq, i, nr_irqs) ==
  IF i < nr_irqs
  THEN ipi_mux_domain_alloc_loop(ipi_mux_domain_map(map, virq + i, hwirq + i),
                                 virq, hwirq, i + 1, nr_irqs)
  ELSE map

ipi_mux_domain_alloc(virq, nr_irqs, param0) ==
  ipi_mux_domain_alloc_loop(NoMap, virq, param0, 0, nr_irqs)

\* faulty entry tests: one that forgets the existing domain, one that forgets
\* the send callback
create_rejects_ops_only(ops) == ~ops.present \/ ~ops.ipi_mux_send
create_rejects_no_send_test(ops) == ipi_mux_domain # NULL \/ ~ops.present

\* the test at the head of ipi_mux_create()
create_rejects(ops) ==
  ipi_mux_domain # NULL \/ ~ops.present \/ ~ops.ipi_mux_send

\* a faulty mode test that chains whatever the parent is
create_chains_always(parent_virq) == TRUE

\* if (parent_virq > 0): chained mode
create_chains(parent_virq) == parent_virq > 0

\* return value of a successful ipi_mux_create()
create_result(virq) == virq

\* a faulty failure path that forgets irq_domain_remove()
create_rollback_leak(domains, domain) == domains

\* irq_domain_remove(domain) on the virq allocation failure path
create_rollback(domains, domain) == domains \ {domain}

\* a faulty starting callback that does not enable the parent irq
ipi_mux_starting_cpu_noop(enabled, cpu) == enabled

\* ipi_mux_starting_cpu(): enable_percpu_irq(ipi_mux_parent_virq, ...)
ipi_mux_starting_cpu(enabled, cpu) == [enabled EXCEPT ![cpu] = TRUE]

\* a faulty dying callback that leaves the parent irq enabled
ipi_mux_dying_cpu_noop(enabled, cpu) == enabled

\* ipi_mux_dying_cpu(): disable_percpu_irq(ipi_mux_parent_virq)
ipi_mux_dying_cpu(enabled, cpu) == [enabled EXCEPT ![cpu] = FALSE]

\* what a successful ipi_mux_create() leaves behind: lines 184-194
create_binds(parent_virq, ops, domain, virq) ==
  [ ipi_mux_domain |-> domain,
    ipi_mux_parent_virq |-> parent_virq,
    ipi_mux_ops |-> ops,
    virq_of |-> ipi_mux_domain_alloc(virq, IPI_MUX_NR_IRQS, 0),
    chained_handler |-> IF create_chains(parent_virq) THEN {parent_virq} ELSE {},
    cpuhp_hooks |-> create_chains(parent_virq),
    \* cpuhp_setup_state() runs the starting callback on the online CPUs
    irq_enabled |-> [c \in CPUS |->
                      IF create_chains(parent_virq)
                      THEN ipi_mux_starting_cpu([d \in CPUS |-> FALSE], c)[c]
                      ELSE FALSE],
    ret |-> create_result(virq) ]

LogCreate(path, ret, parent_virq, ops) ==
  create_log' = Append(create_log,
    [path |-> path, ret |-> ret, parent_virq |-> parent_virq, ops |-> ops])

\* ipi_mux_create(parent_virq, ops).  domain_ok and virq are the results of
\* irq_domain_add_linear() and __irq_domain_alloc_irqs().
ipi_mux_create(parent_virq, ops, domain_ok, virq) ==
  /\ Len(create_log) < MaxCreates
  /\ LET domain == Len(create_log) + 1 IN
     IF create_rejects(ops)
     THEN /\ LogCreate("reject", 0, parent_virq, ops)
          /\ UNCHANGED << ipi_mux_parent_virq, ipi_mux_domain, ipi_mux_ops,
                          live_domains, virq_of, chained_handler, cpuhp_hooks,
                          irq_enabled >>
     ELSE IF ~domain_ok
     THEN /\ LogCreate("nodomain", 0, parent_virq, ops)
          /\ UNCHANGED << ipi_mux_parent_virq, ipi_mux_domain, ipi_mux_ops,
                          live_domains, virq_of, chained_handler, cpuhp_hooks,
                          irq_enabled >>
     ELSE IF virq <= 0
     THEN /\ LogCreate("novirq", virq, parent_virq, ops)
          /\ live_domains' = create_rollback(live_domains \cup {domain}, domain)
          /\ UNCHANGED << ipi_mux_parent_virq, ipi_mux_domain, ipi_mux_ops,
                          virq_of, chained_handler, cpuhp_hooks, irq_enabled >>
     ELSE LET b == create_binds(parent_virq, ops, domain, virq) IN
          /\ LogCreate("ok", b.ret, parent_virq, ops)
          /\ live_domains' = live_domains \cup {domain}
          /\ virq_of' = b.virq_of
          /\ ipi_mux_domain' = b.ipi_mux_domain
          /\ ipi_mux_parent_virq' = b.ipi_mux_parent_virq
          /\ ipi_mux_ops' = b.ipi_mux_ops
          /\ chained_handler' = b.chained_handler
          /\ cpuhp_hooks' = b.cpuhp_hooks
          /\ irq_enabled' = b.irq_enabled
  /\ UNCHANGED << ipi_mux_bits, hw_pending, inflight, raced >>
  /\ UNCHANGED hotplugVars
  /\ UNCHANGED sendVars
  /\ UNCHANGED drainVars
  /\ UNCHANGED clkVars

Create ==
  \E parent_virq \in ParentVirqs, ops \in OpsValues,
     domain_ok \in BOOLEAN, virq \in AllocResults :
    ipi_mux_create(parent_virq, ops, domain_ok, virq)

\* ---------------------------------------------------------------------------
\* Send path: ipi_mux_send_mask(d, mask) running on CPU p, d->hwirq = v
\* ---------------------------------------------------------------------------

\* sum of f[lo] .. f[hi]
RECURSIVE SumTo(_, _, _)
SumTo(f, lo, hi) == IF lo > hi THEN 0 ELSE f[lo] + SumTo(f, lo + 1, hi)

\* number of (send, target CPU) pairs begun so far
TotalSends ==
  SumTo([c \in CPUS |-> SumTo(nsend[c], 0, IPI_MUX_NR_IRQS - 1)], 0, NrCpus - 1)

Min(S) == CHOOSE x \in S : \A y \in S : x <= y

\* a faulty set_bit that stores the bit instead of or-ing it in
set_bit_store(nr, word) == {nr}
\* a faulty set_bit that also sets the next bit of the word
set_bit_spill(nr, word) == word \cup {nr, (nr + 1) % IPI_MUX_NR_IRQS}

\* set_bit(nr, addr): atomic read-modify-write that sets one bit
set_bit(nr, word) == word \cup {nr}

\* for_each_cpu(cpu, mask): the CPUs of the mask in increasing order
for_each_cpu_next(todo) == Min(todo)

\* a faulty loop that leaves for_each_cpu() after its first iteration
for_each_cpu_done_first(todo, cpu) == TRUE

\* for_each_cpu(cpu, mask) ends after the iteration on the last CPU of the mask
for_each_cpu_done(todo, cpu) == todo = {cpu}

\* lines of other sends that are running with cpu in their mask
OtherSends(p, cpu) ==
  {sline[q] : q \in {r \in CPUS : r # p /\ spc[r] # "idle" /\ cpu \in smask[r]}}

\* the send contexts are interchangeable (the code never reads which CPU
\* sends), so a new send takes the lowest idle one
IdleSenders == {p \in CPUS : spc[p] = "idle"}

\* the atomic set_bit() of one for_each_cpu() iteration, by sender p with
\* line v, mask and CPUs still to visit todo
send_iteration(p, v, mask, todo) ==
  LET cpu == for_each_cpu_next(todo)
      others == OtherSends(p, cpu) \ {v}
  IN /\ ipi_mux_bits' = [ipi_mux_bits EXCEPT ![cpu] = set_bit(v, @)]
     /\ inflight' = [inflight EXCEPT ![cpu] = @ \cup {v}]
     /\ raced' = [raced EXCEPT ![cpu] =
                    IF others = {} THEN @ ELSE @ \cup {v} \cup others]
     /\ stodo' = [stodo EXCEPT ![p] = todo \ {cpu}]
     /\ spc' = [spc EXCEPT ![p] =
                  IF for_each_cpu_done(todo, cpu) THEN "trigger" ELSE "set"]

\* entry of ipi_mux_send_mask(): smp_mb__before_atomic(), then the first
\* iteration of for_each_cpu(cpu, mask) set_bit(d->hwirq, ...)
send_begin(p, v, mask) ==
  /\ ipi_mux_domain # NULL
  /\ spc[p] = "idle"
  /\ mask # {}
  /\ TotalSends + Cardinality(mask) <= MaxSends
  /\ sline' = [sline EXCEPT ![p] = v]
  /\ smask' = [smask EXCEPT ![p] = mask]
  /\ nsend' = [c \in CPUS |->
                IF c \in mask THEN [nsend[c] EXCEPT ![v] = @ + 1] ELSE nsend[c]]
  /\ send_iteration(p, v, mask, mask)
  /\ UNCHANGED << hw_pending, sdone >>
  /\ UNCHANGED createVars
  /\ UNCHANGED clkVars
  /\ UNCHANGED hotplugVars
  /\ UNCHANGED drainVars

\* a further iteration of for_each_cpu(cpu, mask) set_bit(d->hwirq, ...)
send_set_bit(p) ==
  /\ spc[p] = "set"
  /\ send_iteration(p, sline[p], smask[p], stodo[p])
  /\ UNCHANGED << sline, smask, nsend, sdone, hw_pending >>
  /\ UNCHANGED createVars
  /\ UNCHANGED clkVars
  /\ UNCHANGED hotplugVars
  /\ UNCHANGED drainVars

\* smp_mb__after_atomic(); ipi_mux_ops->ipi_mux_send(ipi_mux_parent_virq, mask):
\* the backend asserts the parent IPI on every CPU of the mask; the function
\* returns and its locals are gone
send_trigger(p) ==
  /\ spc[p] = "trigger"
  /\ hw_pending' = [c \in CPUS |-> hw_pending[c] \/ c \in smask[p]]
  /\ sdone' = [c \in CPUS |->
                IF c \in smask[p]
                THEN sdone[c] \cup {<< sline[p], smask[p] >>}
                ELSE sdone[c]]
  /\ spc' = [spc EXCEPT ![p] = "idle"]
  /\ sline' = [sline EXCEPT ![p] = 0]
  /\ smask' = [smask EXCEPT ![p] = {}]
  /\ UNCHANGED << stodo, nsend, raced, ipi_mux_bits, inflight >>
  /\ UNCHANGED createVars
  /\ UNCHANGED clkVars
  /\ UNCHANGED hotplugVars
  /\ UNCHANGED drainVars

SendBegin ==
  /\ IdleSenders # {}
  /\ TotalSends < MaxSends
  /\ LET p == Min(IdleSenders) IN
     \E v \in Lines, mask \in SUBSET CPUS : send_begin(p, v, mask)
SendSetBit == \E p \in CPUS : send_set_bit(p)
SendTrigger == \E p \in CPUS : send_trigger(p)

\* ---------------------------------------------------------------------------
\* Drain path: ipi_mux_process() running on CPU c
\* ---------------------------------------------------------------------------

\* faulty exchanges: one that returns only the lowest set bit, one that reads
\* an empty word as bit 0, one that leaves the word as it was
xchg_ret_lowest(word) == IF word = {} THEN {} ELSE {Min(word)}
xchg_ret_ffs(word) == IF word = {} THEN {0} ELSE word
xchg_store_keep(word, new) == word
\* a faulty drain that clears only the lowest set bit of the word
xchg_store_one_bit(word, new) == IF word = {} THEN {} ELSE word \ {Min(word)}

\* irqs = xchg(bits, 0): the value returned, and the value left in the word
xchg_ret(word) == word
xchg_store(word, new) == new

\* for_each_set_bit(hwirq, &irqs, IPI_MUX_NR_IRQS): lowest remaining bit first
for_each_set_bit_next(word) == Min(word \cap Lines)

\* a faulty loop that breaks at the first failed dispatch
for_each_set_bit_rest_break(word, hwirq, err) ==
  IF err # 0 THEN {} ELSE {b \in word \cap Lines : b > hwirq}

\* a faulty loop that searches the next bit from hwirq, not from hwirq + 1
for_each_set_bit_rest_from_same(word, hwirq, err) ==
  {b \in word \cap Lines : b >= hwirq}

\* the bits still to visit after hwirq, whatever err the dispatch returned
for_each_set_bit_rest(word, hwirq, err) == {b \in word \cap Lines : b > hwirq}

\* if (unlikely(err)) pr_warn_ratelimited(...)
process_warns(err) == err # 0

\* "Clear the parent IPI": if (ipi_mux_ops->ipi_mux_clear) ...clear(parent)
process_clear(pending, c) ==
  IF ipi_mux_ops.ipi_mux_clear THEN [pending EXCEPT ![c] = FALSE] ELSE pending

\* a parent IPI that has no clear callback drops its condition when it is taken
parent_taken(pending, c) ==
  IF ipi_mux_ops.ipi_mux_clear THEN pending ELSE [pending EXCEPT ![c] = FALSE]

\* entry of ipi_mux_process() on CPU c, up to and including the clear callback
process_enter(c, kind) ==
  /\ ipi_mux_domain # NULL
  /\ dpc[c] = "idle"
  /\ dpc' = [dpc EXCEPT ![c] = "xchg"]
  /\ entered_by' = [entered_by EXCEPT ![c] = kind]
  /\ hw_pending' = process_clear(parent_taken(hw_pending, c), c)
  /\ sent_at_entry' = [sent_at_entry EXCEPT ![c] = sdone[c]]
  /\ UNCHANGED << irqs, ncalls, last_snap, did, failed, warned, raced,
                  ipi_mux_bits, inflight >>
  /\ UNCHANGED createVars
  /\ UNCHANGED clkVars
  /\ UNCHANGED hotplugVars
  /\ UNCHANGED sendVars

\* ipi_mux_handler(): the chained handler of the parent irq, run on a CPU where
\* the parent IPI is asserted and enabled
ipi_mux_handler(c) ==
  /\ chained_handler # {}
  /\ irq_enabled[c]
  /\ hw_pending[c]
  /\ process_enter(c, "handler")

\* explicit mode: the irqchip driver calls ipi_mux_process() itself, from its
\* own handler of the parent IPI
explicit_process(c) ==
  /\ ipi_mux_parent_virq = 0
  /\ hw_pending[c]
  /\ process_enter(c, "explicit")

\* smp_mb(); irqs = xchg(bits, 0); if (!irqs) return;
process_xchg(c) ==
  /\ dpc[c] = "xchg"
  /\ LET snap == xchg_ret(ipi_mux_bits[c]) IN
     /\ ipi_mux_bits' = [ipi_mux_bits EXCEPT ![c] = xchg_store(@, {})]
     /\ irqs' = [irqs EXCEPT ![c] = snap]
     /\ last_snap' = [last_snap EXCEPT ![c] = snap]
     /\ inflight' = [inflight EXCEPT ![c] = @ \ snap]
     /\ dpc' = [dpc EXCEPT ![c] = IF snap = {} THEN "ret" ELSE "dispatch"]
  /\ UNCHANGED << entered_by, sent_at_entry, ncalls, did, failed, warned,
                  raced, hw_pending, online >>
  /\ start_mask' = [start_mask EXCEPT ![c] = {}]
  /\ UNCHANGED createVars
  /\ UNCHANGED clkVars
  /\ UNCHANGED sendVars

\* generic_handle_domain_irq(domain, hwirq): runs the handler of the Linux irq
\* that hwirq is mapped to and returns 0, or returns -EINVAL without a mapping
generic_handle_domain_irq(map, hwirq) ==
  IF hwirq \in DOMAIN map THEN 0 ELSE -22

\* one iteration of for_each_set_bit(): err = generic_handle_domain_irq(
\* ipi_mux_domain, hwirq), warning when err is not 0
process_dispatch(c) ==
  /\ dpc[c] = "dispatch"
  /\ LET hwirq == for_each_set_bit_next(irqs[c])
         err == generic_handle_domain_irq(virq_of, hwirq)
         rest == for_each_set_bit_rest(irqs[c], hwirq, err)
     IN /\ ncalls' = [ncalls EXCEPT ![c][hwirq] = @ + 1]
        /\ did' = [did EXCEPT ![c][hwirq] = @ + 1]
        /\ failed' = [failed EXCEPT ![c] = IF err # 0 THEN @ \cup {hwirq} ELSE @]
        /\ warned' = [warned EXCEPT ![c] =
                        IF process_warns(err) THEN @ \cup {hwirq} ELSE @]
        /\ irqs' = [irqs EXCEPT ![c] = rest]
        /\ dpc' = [dpc EXCEPT ![c] = IF rest = {} THEN "ret" ELSE "dispatch"]
  /\ UNCHANGED << entered_by, sent_at_entry, last_snap, raced, ipi_mux_bits,
                  inflight, hw_pending >>
  /\ UNCHANGED createVars
  /\ UNCHANGED clkVars
  /\ UNCHANGED hotplugVars
  /\ UNCHANGED sendVars

\* a faulty drain that calls the clear callback at its end, after the exchange
process_return_clears(c) ==
  /\ dpc[c] = "ret"
  /\ dpc' = [dpc EXCEPT ![c] = "idle"]
  /\ hw_pending' = process_clear(hw_pending, c)
  /\ entered_by' = [entered_by EXCEPT ![c] = "none"]
  /\ sent_at_entry' = [sent_at_entry EXCEPT ![c] = {}]
  /\ last_snap' = [last_snap EXCEPT ![c] = {}]
  /\ did' = [did EXCEPT ![c] = [v \in Lines |-> 0]]
  /\ failed' = [failed EXCEPT ![c] = {}]
  /\ warned' = [warned EXCEPT ![c] = {}]
  /\ raced' = [raced EXCEPT ![c] = {}]
  /\ UNCHANGED << irqs, ncalls, ipi_mux_bits, inflight >>
  /\ UNCHANGED createVars
  /\ UNCHANGED clkVars
  /\ UNCHANGED hotplugVars
  /\ UNCHANGED sendVars

\* return from ipi_mux_process(): the history of this drain is dropped
process_return(c) ==
  /\ dpc[c] = "ret"
  /\ dpc' = [dpc EXCEPT ![c] = "idle"]
  /\ entered_by' = [entered_by EXCEPT ![c] = "none"]
  /\ sent_at_entry' = [sent_at_entry EXCEPT ![c] = {}]
  /\ last_snap' = [last_snap EXCEPT ![c] = {}]
  /\ did' = [did EXCEPT ![c] = [v \in Lines |-> 0]]
  /\ failed' = [failed EXCEPT ![c] = {}]
  /\ warned' = [warned EXCEPT ![c] = {}]
  /\ raced' = [raced EXCEPT ![c] = {}]
  /\ UNCHANGED << irqs, ncalls, ipi_mux_bits, inflight, hw_pending >>
  /\ UNCHANGED createVars
  /\ UNCHANGED clkVars
  /\ UNCHANGED hotplugVars
  /\ UNCHANGED sendVars

\* ---------------------------------------------------------------------------
\* CPU hotplug: the callbacks cpuhp_setup_state() registered run on a CPU that
\* goes down or comes up
\* ---------------------------------------------------------------------------

\* CPU c goes down, outside any interrupt handler; with the callbacks
\* registered, ipi_mux_dying_cpu() runs on it.  The CPUs are alike, so the
\* model has one CPU down at a time.
cpu_dying(c) ==
  /\ ipi_mux_domain # NULL
  /\ online[c]
  /\ \A o \in CPUS : online[o]
  /\ dpc[c] = "idle"
  /\ online' = [online EXCEPT ![c] = FALSE]
  /\ start_mask' = [start_mask EXCEPT ![c] = {}]
  /\ irq_enabled' = IF cpuhp_hooks THEN ipi_mux_dying_cpu(irq_enabled, c)
                                   ELSE irq_enabled
  /\ UNCHANGED << ipi_mux_parent_virq, ipi_mux_domain, ipi_mux_ops, live_domains,
                  virq_of, chained_handler, cpuhp_hooks, create_log >>
  /\ UNCHANGED << ipi_mux_bits, hw_pending, inflight, raced >>
  /\ UNCHANGED sendVars
  /\ UNCHANGED drainVars
  /\ UNCHANGED clkVars

\* a starting transition that zeroes the pending word of the CPU
cpu_starting_zeroes(c) ==
  /\ ipi_mux_domain # NULL
  /\ ~online[c]
  /\ online' = [online EXCEPT ![c] = TRUE]
  /\ start_mask' = [start_mask EXCEPT ![c] = {}]
  /\ ipi_mux_bits' = [ipi_mux_bits EXCEPT ![c] = {}]
  /\ inflight' = [inflight EXCEPT ![c] = {}]
  /\ irq_enabled' = IF cpuhp_hooks THEN ipi_mux_starting_cpu(irq_enabled, c)
                                   ELSE irq_enabled
  /\ UNCHANGED << ipi_mux_parent_virq, ipi_mux_domain, ipi_mux_ops, live_domains,
                  virq_of, chained_handler, cpuhp_hooks, create_log >>
  /\ UNCHANGED << hw_pending, raced >>
  /\ UNCHANGED sendVars
  /\ UNCHANGED drainVars
  /\ UNCHANGED clkVars

\* CPU c comes up; with the callbacks registered, ipi_mux_starting_cpu() runs
\* on it
cpu_starting(c) ==
  /\ ipi_mux_domain # NULL
  /\ ~online[c]
  /\ online' = [online EXCEPT ![c] = TRUE]
  /\ start_mask' = [start_mask EXCEPT ![c] = ipi_mux_bits[c]]
  /\ irq_enabled' = IF cpuhp_hooks THEN ipi_mux_starting_cpu(irq_enabled, c)
                                   ELSE irq_enabled
  /\ UNCHANGED << ipi_mux_parent_virq, ipi_mux_domain, ipi_mux_ops, live_domains,
                  virq_of, chained_handler, cpuhp_hooks, create_log >>
  /\ UNCHANGED << ipi_mux_bits, hw_pending, inflight, raced >>
  /\ UNCHANGED sendVars
  /\ UNCHANGED drainVars
  /\ UNCHANGED clkVars

CpuDying == \E c \in CPUS : cpu_dying(c)
CpuStarting == \E c \in CPUS : cpu_starting(c)

Handler == \E c \in CPUS : ipi_mux_handler(c)
ExplicitProcess == \E c \in CPUS : explicit_process(c)
ProcessXchg == \E c \in CPUS : process_xchg(c)
ProcessDispatch == \E c \in CPUS : process_dispatch(c)
ProcessReturn == \E c \in CPUS : process_return(c)

\* ---------------------------------------------------------------------------
\* Clock driver: sbi_clk_round_rate()
\* ---------------------------------------------------------------------------

\* the values of a u64 / unsigned long
U64 == 0 .. (2 ^ RateBits - 1)

\* arithmetic on u64 wraps
wrap_u64(x) == x % (2 ^ RateBits)

\* do_div(n, base): uint32_t __base = (base); n = n / __base
do_div_base(base) == base % (2 ^ DivBits)

\* the quotient do_div() leaves in n; a division by zero is undefined and
\* leaves any value
do_div(n, base, undefined) ==
  IF do_div_base(base) = 0 THEN undefined ELSE n \div do_div_base(base)

\* conversion of the u64 result to the function's return type long
to_long(x) == IF x >= 2 ^ (RateBits - 1) THEN x - 2 ^ RateBits ELSE x

\* sbi_clk_round_rate(hw, rate, parent_rate) on a clock of the given type and
\* range; `undefined` is what a division by zero leaves
sbi_clk_round_rate(type, fmin, fmax, step, r, undefined) ==
  IF type = SBI_CLK_TYPE_DISCRETE THEN to_long(r)
  ELSE IF r <= fmin THEN to_long(fmin)
  ELSE IF r >= fmax THEN to_long(fmax)
  ELSE LET ftmp0 == wrap_u64(r - fmin)
           ftmp1 == wrap_u64(ftmp0 + wrap_u64(step - 1))
           ftmp2 == do_div(ftmp1, step, undefined)
       IN to_long(wrap_u64(wrap_u64(ftmp2 * step) + fmin))

\* a call of sbi_clk_round_rate()
RoundRate ==
  /\ round_pc = "idle"
  /\ \E undefined \in U64 :
       round_ret' = sbi_clk_round_rate(clk_type, min_rate, max_rate, step_size,
                                       rate, undefined)
  /\ round_pc' = "returned"
  /\ UNCHANGED << clk_type, min_rate, max_rate, step_size, rate >>
  /\ UNCHANGED << ipi_mux_bits, hw_pending, inflight, raced >>
  /\ UNCHANGED createVars
  /\ UNCHANGED hotplugVars
  /\ UNCHANGED sendVars
  /\ UNCHANGED drainVars

\* ---------------------------------------------------------------------------
\* Specifications
\* ---------------------------------------------------------------------------

\* the first virq a successful __irq_domain_alloc_irqs() returned; the virq
\* numbers play no part in sends and drains, so operation starts from one
FirstVirq == Min({r \in AllocResults : r > 0})

\* .free = irq_domain_free_irqs_top: the Linux irqs of the hardware lines in
\* `released` were freed and their mappings are gone
irq_domain_free_irqs(map, released) ==
  [h \in (DOMAIN map) \ released |-> map[h]]

\* Operation: the controller as a first successful ipi_mux_create() left it,
\* with the parent IPI left asserted on the CPUs in `stale`, and the lines in
\* `released` freed since
Operating(stale, released) ==
  /\ \E parent_virq \in ParentVirqs, ops \in OpsValues :
       /\ ops.present /\ ops.ipi_mux_send
       /\ LET b == create_binds(parent_virq, ops, 1, FirstVirq) IN
          /\ ipi_mux_domain = b.ipi_mux_domain
          /\ ipi_mux_parent_virq = b.ipi_mux_parent_virq
          /\ ipi_mux_ops = b.ipi_mux_ops
          /\ virq_of = irq_domain_free_irqs(b.virq_of, released)
          /\ chained_handler = b.chained_handler
          /\ cpuhp_hooks = b.cpuhp_hooks
          /\ irq_enabled = b.irq_enabled
          /\ live_domains = {b.ipi_mux_domain}
          /\ create_log = << [path |-> "ok", ret |-> b.ret,
                               parent_virq |-> parent_virq, ops |-> ops] >>
  /\ hw_pending = [c \in CPUS |-> c \in stale]
  /\ online = [c \in CPUS |-> TRUE]
  /\ start_mask = [c \in CPUS |-> {}]
  /\ QuietInit
  /\ ClkQuiet

\* sends and drains on all CPUs of a freshly created controller
Init == Operating({}, {})

\* the same, where the parent IPI was left asserted on the boot CPU before
\* creation
InitStale == Operating({0}, {})

\* the same, after the Linux irq of one line was freed
InitUnmapped == \E f \in Lines : Operating({}, {f})

Next ==
  \/ SendBegin
  \/ SendSetBit
  \/ SendTrigger
  \/ Handler
  \/ ExplicitProcess
  \/ ProcessXchg
  \/ ProcessDispatch
  \/ ProcessReturn

Spec == Init /\ [][Next]_vars

\* Bring-up: calls of ipi_mux_create() from the zero-initialised statics
NextCreate == Create

SpecCreate == BootInit /\ [][NextCreate]_vars

SpecStale == InitStale /\ [][Next]_vars

SpecUnmapped == InitUnmapped /\ [][Next]_vars

\* Chained mode with CPUs going down and coming up
InitHotplug == Init /\ ipi_mux_parent_virq > 0

NextHotplug ==
  \/ SendBegin
  \/ SendSetBit
  \/ SendTrigger
  \/ Handler
  \/ ProcessXchg
  \/ ProcessDispatch
  \/ ProcessReturn
  \/ CpuDying
  \/ CpuStarting

SpecHotplug == InitHotplug /\ [][NextHotplug]_vars

\* Chained mode with all CPUs up, where code that has started runs on: a
\* sender finishes its loop and calls the backend, a raised and enabled parent
\* IPI runs the chained handler, and a drain runs to its return
InitChained == Init /\ ipi_mux_parent_virq > 0

NextChained ==
  \/ SendBegin
  \/ SendSetBit
  \/ SendTrigger
  \/ Handler
  \/ ProcessXchg
  \/ ProcessDispatch
  \/ ProcessReturn

Fairness ==
  /\ \A p \in CPUS : WF_vars(send_set_bit(p)) /\ WF_vars(send_trigger(p))
  /\ \A c \in CPUS :
       /\ WF_vars(ipi_mux_handler(c))
       /\ WF_vars(process_xchg(c))
       /\ WF_vars(process_dispatch(c))
       /\ WF_vars(process_return(c))

SpecChained == InitChained /\ [][NextChained]_vars /\ Fairness

\* A registered clock of either type with any range, and any requested rate
InitRound ==
  /\ StaticsInit
  /\ clk_type \in {SBI_CLK_TYPE_RANGE, SBI_CLK_TYPE_DISCRETE}
  /\ min_rate \in U64
  /\ max_rate \in U64
  /\ step_size \in U64
  /\ rate \in U64
  /\ round_pc = "idle"
  /\ round_ret = 0

NextRound == RoundRate

SpecRound == InitRound /\ [][NextRound]_vars

\* ---------------------------------------------------------------------------
\* Properties of sends and drains
\* ---------------------------------------------------------------------------

\* C1: a send racing with a drain is never lost.  A bit that a send has set on
\* CPU c and that no exchange on c has returned yet is still set in c's
\* pending word: whatever a drain's exchange did not return, it left in the
\* word, where the exchange of the next drain on c finds it.
C1_NeverLost ==
  \A c \in CPUS : inflight[c] \subseteq ipi_mux_bits[c]

\* a send set a bit on c after the running drain's exchange: the bit is in
\* the word while the drain still dispatches its own snapshot
C1_Witness ==
  \E c \in CPUS :
    /\ dpc[c] = "dispatch"
    /\ last_snap[c] # {}
    /\ inflight[c] # {}
    /\ inflight[c] \subseteq ipi_mux_bits[c]

\* C2: send(v, S) followed by a drain on each CPU of S dispatches v exactly
\* once per CPU of S.  When a drain on c that was entered after a send of v to
\* c had returned comes to its end, and v was sent to c only once, then v has
\* been dispatched on c exactly once: not zero times and not twice.
C2_ExactlyOnce ==
  \A c \in CPUS : \A e \in sent_at_entry[c] :
    (dpc[c] = "ret" /\ nsend[c][e[1]] = 1) => ncalls[c][e[1]] = 1

\* one send to two or more CPUs, each of which has drained it
C2_Witness ==
  \E v \in Lines, S \in SUBSET CPUS :
    /\ Cardinality(S) >= 2
    /\ \A c \in S :
         /\ dpc[c] = "ret"
         /\ << v, S >> \in sent_at_entry[c]
         /\ nsend[c][v] = 1
         /\ ncalls[c][v] = 1

\* C3: two sends of different lines v1, v2 to the same CPU that ran
\* concurrently, in any order of their set_bit steps, followed by one drain
\* entered after both returned: the drain dispatches v1 and v2 once each.
C3_ConcurrentSends ==
  \A c \in CPUS : \A e1, e2 \in sent_at_entry[c] :
    LET v1 == e1[1]
        v2 == e2[1]
    IN ( /\ dpc[c] = "ret"
         /\ v1 # v2
         /\ e1[2] = {c} /\ e2[2] = {c}
         /\ {v1, v2} \subseteq raced[c]
         /\ nsend[c][v1] = 1 /\ nsend[c][v2] = 1
         \* no earlier drain dispatched either
         /\ ncalls[c][v1] = did[c][v1] /\ ncalls[c][v2] = did[c][v2] )
       => (did[c][v1] = 1 /\ did[c][v2] = 1)

\* two overlapping single-CPU sends of different lines, drained by one drain
C3_Witness ==
  \E c \in CPUS : \E v1, v2 \in Lines :
    /\ v1 # v2
    /\ dpc[c] = "ret"
    /\ {<< v1, {c} >>, << v2, {c} >>} \subseteq sent_at_entry[c]
    /\ {v1, v2} \subseteq raced[c]
    /\ last_snap[c] = {v1, v2}
    /\ did[c][v1] = 1 /\ did[c][v2] = 1
    /\ ncalls[c][v1] = 1 /\ ncalls[c][v2] = 1

\* C4: a drain on a CPU whose pending word is zero is a no-op.  The exchange
\* of a zero word returns an empty snapshot, leaves the word zero and goes
\* straight to the return; and at the return of a drain with an empty
\* snapshot nothing was dispatched, nothing failed and nothing was warned
\* about.
C4_EmptyDrain ==
  /\ [][\A c \in CPUS :
          (dpc[c] = "xchg" /\ dpc'[c] # "xchg" /\ ipi_mux_bits[c] = {})
          => /\ last_snap'[c] = {}
             /\ irqs'[c] = {}
             /\ ipi_mux_bits'[c] = {}
             /\ dpc'[c] = "ret"
             /\ ncalls' = ncalls]_vars
  /\ [](\A c \in CPUS :
          (dpc[c] = "ret" /\ last_snap[c] = {})
          => /\ \A v \in Lines : did[c][v] = 0
             /\ failed[c] = {}
             /\ warned[c] = {})

\* both cases at once: a CPU that no send ever targeted ends an empty drain,
\* and a CPU whose earlier drain took everything ends another, empty one
C4_Witness ==
  /\ \E c \in CPUS :
       /\ dpc[c] = "ret" /\ last_snap[c] = {} /\ ipi_mux_bits[c] = {}
       /\ \A v \in Lines : nsend[c][v] = 0
  /\ \E c \in CPUS :
       /\ dpc[c] = "ret" /\ last_snap[c] = {} /\ ipi_mux_bits[c] = {}
       /\ \E v \in Lines : ncalls[c][v] >= 1
       /\ \A v \in Lines : did[c][v] = 0

\* C8: explicit mode.  A controller created with parent line 0 has no chained
\* handler, no hotplug callbacks and no enabled parent irq; no drain on it is
\* entered by the chained handler, and a line is dispatched on a CPU only
\* inside a drain that an external caller entered on that CPU.
C8_Explicit ==
  /\ [](ipi_mux_parent_virq = 0 =>
          /\ chained_handler = {}
          /\ ~cpuhp_hooks
          /\ \A c \in CPUS : ~irq_enabled[c]
          /\ \A c \in CPUS : dpc[c] # "idle" => entered_by[c] = "explicit")
  /\ [][ipi_mux_parent_virq = 0 =>
          \A c \in CPUS :
            ncalls'[c] # ncalls[c] => entered_by[c] = "explicit"]_vars

\* explicit mode: a send to c has returned, and the line was dispatched in a
\* drain the external caller entered
C8_Witness ==
  \E c \in CPUS : \E e \in sent_at_entry[c] :
    /\ ipi_mux_parent_virq = 0
    /\ create_log[1].parent_virq = 0
    /\ dpc[c] = "ret"
    /\ entered_by[c] = "explicit"
    /\ did[c][e[1]] = 1

\* C9: an unmapped bit never aborts the drain.  At the return of a drain whose
\* snapshot held a bit the dispatch of which failed, that bit was warned
\* about and every other bit of the snapshot was dispatched exactly once in
\* this drain.
C9_UnmappedBit ==
  \A c \in CPUS : \A f \in failed[c] :
    dpc[c] = "ret" =>
      /\ f \in warned[c]
      /\ \A v \in last_snap[c] \ {f} : did[c][v] = 1

\* a drain whose first bit failed and that still dispatched a later, mapped one
C9_Witness ==
  \E c \in CPUS : \E f \in failed[c] : \E v \in last_snap[c] :
    /\ dpc[c] = "ret"
    /\ f \notin DOMAIN virq_of
    /\ f < v
    /\ v \in DOMAIN virq_of
    /\ did[c][v] = 1

\* ---------------------------------------------------------------------------
\* Properties of ipi_mux_create()
\* ---------------------------------------------------------------------------

\* the record of the latest ipi_mux_create() call
LastCreate == create_log[Len(create_log)]

\* a call of ipi_mux_create() happens in this step
CreateCalled == Len(create_log') = Len(create_log) + 1

\* the step leaves everything ipi_mux_create() could have set up as it was
CreateTouchedNothing ==
  UNCHANGED << ipi_mux_domain, ipi_mux_parent_virq, ipi_mux_ops, live_domains,
               virq_of, chained_handler, cpuhp_hooks, irq_enabled >>

\* C5: a second creation is rejected.  Every ipi_mux_create() call made while
\* a controller exists, whatever its arguments, returns 0, allocates no domain
\* and no line, installs no handler and no hotplug callbacks, and leaves the
\* domain, parent line and backend binding as they were.
C5_SecondCreate ==
  [][(CreateCalled /\ ipi_mux_domain # NULL)
     => (LastCreate'.ret = 0 /\ CreateTouchedNothing)]_vars

\* after a successful create, a later call with a usable backend and another
\* parent line returned 0 and the binding is still that of the first
C5_Witness ==
  \E i, j \in 1 .. Len(create_log) :
    /\ i < j
    /\ create_log[i].path = "ok"
    /\ create_log[j].ops.present /\ create_log[j].ops.ipi_mux_send
    /\ create_log[j].parent_virq # create_log[i].parent_virq
    /\ create_log[j].ret = 0
    /\ ipi_mux_parent_virq = create_log[i].parent_virq
    /\ ipi_mux_ops = create_log[i].ops
    /\ ipi_mux_domain = i
    /\ live_domains = {i}

\* C6: ipi_mux_create() with no backend, or with a backend that has no send
\* callback, returns a value <= 0 and leaves all controller state as it was:
\* no domain, no line, no chained handler, no hotplug callbacks.
C6_NoSendRejected ==
  [][(CreateCalled /\ (~LastCreate'.ops.present \/ ~LastCreate'.ops.ipi_mux_send))
     => (LastCreate'.ret <= 0 /\ CreateTouchedNothing)]_vars

\* while no controller exists, a call without backend and a call with a
\* backend without send were both turned down
C6_Witness ==
  \E i, j \in 1 .. Len(create_log) :
    /\ ~create_log[i].ops.present
    /\ create_log[j].ops.present /\ ~create_log[j].ops.ipi_mux_send
    /\ create_log[i].ret <= 0 /\ create_log[j].ret <= 0
    /\ ipi_mux_domain = NULL
    /\ live_domains = {}
    /\ virq_of = NoMap

\* C7: creation fails atomically.  A call in which the domain allocation or
\* the line allocation fails returns a value <= 0, and after it no domain is
\* left, no binding is recorded, no handler and no hotplug callbacks are
\* installed: the statics are as at boot, so that a later call is not
\* rejected for an existing controller.
C7_AtomicFailure ==
  (create_log # << >> /\ LastCreate.path \in {"nodomain", "novirq"})
  => /\ LastCreate.ret <= 0
     /\ live_domains = {}
     /\ virq_of = NoMap
     /\ ipi_mux_domain = NULL
     /\ ipi_mux_ops = NoOps
     /\ ipi_mux_parent_virq = 0
     /\ chained_handler = {}
     /\ ~cpuhp_hooks
     /\ \A c \in CPUS : ~irq_enabled[c]

\* a failed domain allocation and a failed line allocation, then a create
\* that succeeded
C7_Witness ==
  \E i, j, k \in 1 .. Len(create_log) :
    /\ i < k /\ j < k
    /\ create_log[i].path = "nodomain"
    /\ create_log[j].path = "novirq"
    /\ create_log[k].path = "ok"
    /\ ipi_mux_domain = k
    /\ live_domains = {k}

\* C10: a successful ipi_mux_create() returns a value > 0, the first Linux
\* irq; hardware line i of 0 .. IPI_MUX_NR_IRQS-1 is mapped to the Linux irq
\* (returned value + i), one to one; and the mapping stays so through every
\* later call.
C10_Mapping ==
  \A k \in 1 .. Len(create_log) :
    create_log[k].path = "ok" =>
      /\ create_log[k].ret > 0
      /\ DOMAIN virq_of = Lines
      /\ \A i \in Lines : virq_of[i] = create_log[k].ret + i
      /\ \A i, j \in Lines : virq_of[i] = virq_of[j] => i = j

\* a successful create, with calls after it, and the last line still mapped
\* to the returned value + IPI_MUX_NR_IRQS - 1
C10_Witness ==
  \E k \in 1 .. Len(create_log) :
    /\ create_log[k].path = "ok"
    /\ k < Len(create_log)
    /\ create_log[k].ret > 0
    /\ virq_of[IPI_MUX_NR_IRQS - 1] = create_log[k].ret + IPI_MUX_NR_IRQS - 1

\* ---------------------------------------------------------------------------
\* Ordering of the send path
\* ---------------------------------------------------------------------------

\* the step in which sender p calls the backend's ipi_mux_send and returns
BackendSend(p) == spc[p] = "trigger" /\ spc'[p] = "idle"

\* line v was set on c and is still in the word, or a drain on c took it
SetOrTaken(c, v) ==
  v \in ipi_mux_bits[c] \/ v \in irqs[c] \/ ncalls[c][v] >= 1

\* C11: send ordering.  A send leaves ipi_mux_send_mask() only through the
\* one call of the backend send, made when the set_bit loop has visited every
\* CPU of the mask; the call raises the parent IPI on exactly the CPUs of the
\* mask; the parent IPI is raised by nothing else; and on every CPU on which
\* a send has raised the parent IPI, the line of that send is set in the
\* pending word or was already taken by a drain.
C11_SendOrdering ==
  /\ [](\A c \in CPUS : \A e \in sdone[c] : SetOrTaken(c, e[1]))
  /\ [][\A p \in CPUS :
          /\ (spc[p] # "idle" /\ spc'[p] = "idle") => BackendSend(p)
          /\ BackendSend(p) =>
               /\ stodo[p] = {}
               /\ \A c \in smask[p] :
                    /\ SetOrTaken(c, sline[p])
                    /\ hw_pending'[c]
                    /\ << sline[p], smask[p] >> \in sdone'[c]
               /\ \A c \in CPUS \ smask[p] :
                    hw_pending'[c] = hw_pending[c] /\ sdone'[c] = sdone[c]]_vars
  /\ [][\A c \in CPUS :
          (~hw_pending[c] /\ hw_pending'[c])
          => \E p \in CPUS : BackendSend(p) /\ c \in smask[p]]_vars

\* a send to two or more CPUs has called the backend: the parent IPI is
\* asserted on each of them and the line is set in each pending word
C11_Witness ==
  \E v \in Lines, S \in SUBSET CPUS :
    /\ Cardinality(S) >= 2
    /\ \A c \in S :
         /\ << v, S >> \in sdone[c]
         /\ hw_pending[c]
         /\ v \in ipi_mux_bits[c]
         /\ nsend[c][v] = 1

\* ---------------------------------------------------------------------------
\* Wake-ups
\* ---------------------------------------------------------------------------

\* a send that has set its bit on c and has not called the backend yet
SenderInFlight(c) ==
  \E p \in CPUS : spc[p] # "idle" /\ c \in smask[p] \ stodo[p]

\* C12: no lost wake-up in chained mode.  Whenever the pending word of a CPU
\* is not zero, the parent IPI is asserted for that CPU, or a drain on that
\* CPU has not done its exchange yet, or a sender has set a bit there and has
\* not called the backend send yet.
C12_NoLostWakeup ==
  \A c \in CPUS :
    (ipi_mux_parent_virq > 0 /\ ipi_mux_bits[c] # {})
    => \/ hw_pending[c]
       \/ dpc[c] = "xchg"
       \/ SenderInFlight(c)

\* a backend with a clear callback: the drain has cleared the parent IPI, all
\* senders have returned, and the bits wait for the exchange still to come
C12_Witness ==
  \E c \in CPUS :
    /\ ipi_mux_parent_virq > 0
    /\ ipi_mux_ops.ipi_mux_clear
    /\ ipi_mux_bits[c] # {}
    /\ ~hw_pending[c]
    /\ ~SenderInFlight(c)
    /\ dpc[c] = "xchg"
    /\ entered_by[c] = "handler"

\* ---------------------------------------------------------------------------
\* CPU lifecycle
\* ---------------------------------------------------------------------------

\* CPU c passes through its starting transition in this step
Starting(c) == ~online[c] /\ online'[c]

\* CPU c passes through its dying transition in this step
Dying(c) == online[c] /\ ~online'[c]

\* C13 as stated: whenever a CPU passes through the starting transition its
\* pending word is zero at that point, whatever was sent to it while it was
\* going down or was down.
C13_ZeroAtStarting ==
  \A c \in CPUS : start_mask[c] = {}

\* C13 amended: the pending words are zero at boot and the starting and dying
\* transitions leave every pending word as it is; the word of a CPU that is
\* down loses no bit, so what a CPU finds in its word when it comes up is what
\* was set there and not drained before, including the bits of sends made
\* while it was down.
C13_StartingKeepsMask ==
  /\ \A c \in CPUS : ipi_mux_bits[c] = {}
  /\ [][\A c \in CPUS :
          /\ (Starting(c) \/ Dying(c)) => ipi_mux_bits' = ipi_mux_bits
          /\ Starting(c) => (start_mask'[c] = ipi_mux_bits[c] /\
                              inflight[c] \subseteq ipi_mux_bits'[c])
          /\ ~online[c] => ipi_mux_bits[c] \subseteq ipi_mux_bits'[c]]_vars

\* a CPU came up with a bit in its pending word that a send, which returned,
\* had set, and the bit is still there
C13_Witness ==
  \E c \in CPUS : \E e \in sdone[c] :
    /\ online[c]
    /\ e[1] \in start_mask[c]
    /\ e[1] \in ipi_mux_bits[c]
    /\ ncalls[c][e[1]] = 0

\* C14: clearing discipline.  A step that takes any bit out of the pending
\* word of CPU c is the exchange of a drain running on c: it leaves the word
\* zero, returns the whole prior value and takes no bit out of the word of
\* any other CPU.  The starting and dying transitions change no pending
\* word.
C14_ClearingDiscipline ==
  [][\A c \in CPUS :
       /\ ~(ipi_mux_bits[c] \subseteq ipi_mux_bits'[c]) =>
            /\ dpc[c] = "xchg" /\ dpc'[c] \in {"dispatch", "ret"}
            /\ ipi_mux_bits'[c] = {}
            /\ last_snap'[c] = ipi_mux_bits[c]
            /\ irqs'[c] = ipi_mux_bits[c]
            /\ \A o \in CPUS \ {c} : ipi_mux_bits'[o] = ipi_mux_bits[o]
       /\ (Starting(c) \/ Dying(c)) => ipi_mux_bits' = ipi_mux_bits]_vars

\* a drain has just exchanged a word of two or more bits for zero, while
\* another CPU is down
C14_Witness ==
  \E c \in CPUS :
    /\ dpc[c] = "dispatch"
    /\ Cardinality(last_snap[c]) >= 2
    /\ irqs[c] = last_snap[c]
    /\ ipi_mux_bits[c] = {}
    /\ \E o \in CPUS \ {c} : ~online[o]

\* ---------------------------------------------------------------------------
\* Frames
\* ---------------------------------------------------------------------------

\* the CPUs on which sender p has done its set_bit
Visited(p) == smask[p] \ stodo[p]

\* sender p does a set_bit in this step: on entry, or in a later iteration
SetBitStep(p) ==
  (spc[p] = "idle" /\ spc'[p] # "idle") \/ (spc[p] = "set" /\ spc'[p] # spc[p])
  \/ stodo'[p] # stodo[p]

\* C15: frame of send and drain.  A set_bit step of a send of line v adds bit v
\* to the pending word of the one CPU of its mask it visits and changes no
\* other bit and no other word; the backend call changes no pending word; a
\* step of a drain on CPU c changes no word but c's; and so the snapshot of a
\* drain on c holds only lines that were sent to c.
C15_Frame ==
  /\ [](\A c \in CPUS : last_snap[c] \subseteq {v \in Lines : nsend[c][v] >= 1})
  /\ [][\A p \in CPUS :
          /\ SetBitStep(p) =>
               \E c \in smask'[p] :
                 /\ Visited(p)' = (IF spc[p] = "idle" THEN {} ELSE Visited(p))
                                     \cup {c}
                 /\ ipi_mux_bits'[c] = ipi_mux_bits[c] \cup {sline'[p]}
                 /\ \A o \in CPUS \ {c} : ipi_mux_bits'[o] = ipi_mux_bits[o]
          /\ BackendSend(p) => ipi_mux_bits' = ipi_mux_bits]_vars
  /\ [][\A c \in CPUS :
          dpc'[c] # dpc[c] =>
            /\ \A o \in CPUS \ {c} : ipi_mux_bits'[o] = ipi_mux_bits[o]
            /\ dpc[c] # "xchg" => ipi_mux_bits'[c] = ipi_mux_bits[c]]_vars

\* one send of the highest line to c and one send of another line to another
\* CPU: the snapshot of c's drain is that one bit, the other word is untouched
C15_Witness ==
  \E c \in CPUS : \E o \in CPUS \ {c} : \E w \in Lines :
    LET v == IPI_MUX_NR_IRQS - 1 IN
    /\ w # v
    /\ dpc[c] = "dispatch"
    /\ last_snap[c] = {v}
    /\ \A u \in Lines : nsend[c][u] = (IF u = v THEN 1 ELSE 0)
    /\ ipi_mux_bits[c] = {}
    /\ ipi_mux_bits[o] = {w}

\* ---------------------------------------------------------------------------
\* Delivery
\* ---------------------------------------------------------------------------

\* every bit set so far was dispatched: no word and no snapshot holds a bit
Delivered ==
  \A c \in CPUS :
    /\ ipi_mux_bits[c] = {}
    /\ irqs[c] = {}
    /\ \A v \in Lines : nsend[c][v] >= 1 => ncalls[c][v] >= 1

\* C16: eventual delivery in chained mode.  A bit leaves the pending word of a
\* CPU only into the snapshot of a drain on that CPU (until then it stays
\* pending), a bit leaves a snapshot only by being dispatched, and every
\* bit is on its way: from any state, once the senders stop, a state is reached
\* and kept in which no word and no snapshot holds a bit and every line sent
\* to a CPU was dispatched there.
C16_EventualDelivery ==
  /\ <>[]Delivered
  /\ [][\A c \in CPUS : \A v \in Lines :
          /\ (v \in ipi_mux_bits[c] /\ v \notin ipi_mux_bits'[c])
             => (dpc[c] = "xchg" /\ v \in irqs'[c])
          /\ (v \in irqs[c] /\ v \notin irqs'[c])
             => ncalls'[c][v] = ncalls[c][v] + 1]_vars

\* a send to two or more CPUs whose line has been dispatched by the chained
\* handler on all of them
C16_Witness ==
  \E v \in Lines, S \in SUBSET CPUS :
    /\ Cardinality(S) >= 2
    /\ ipi_mux_parent_virq > 0
    /\ \A c \in S :
         /\ << v, S >> \in sdone[c]
         /\ entered_by[c] = "handler"
         /\ v \notin irqs[c]
         /\ did[c][v] = 1

\* C17: lifecycle hooks in chained mode.  The starting transition of a CPU
\* enables the parent irq on it and the dying transition disables it, so the
\* parent irq is enabled on a CPU exactly while the CPU is between its
\* starting and its dying transition; and no drain is entered on a CPU that
\* is down.
C17_LifecycleHooks ==
  /\ [](ipi_mux_parent_virq > 0 =>
          \A c \in CPUS : /\ irq_enabled[c] <=> online[c]
                          /\ ~online[c] => dpc[c] = "idle")
  /\ [][ipi_mux_parent_virq > 0 =>
          \A c \in CPUS :
            /\ Starting(c) => (~irq_enabled[c] /\ irq_enabled'[c])
            /\ Dying(c) => (irq_enabled[c] /\ ~irq_enabled'[c])
            /\ (dpc[c] = "idle" /\ dpc'[c] # "idle") => online[c]]_vars

\* a CPU that is down, with the parent IPI asserted and a bit pending, on
\* which no drain runs; and a CPU that is up on which the handler runs
C17_Witness ==
  /\ ipi_mux_parent_virq > 0
  /\ \E c \in CPUS :
       /\ ~online[c] /\ ~irq_enabled[c]
       /\ hw_pending[c]
       /\ ipi_mux_bits[c] # {}
       /\ dpc[c] = "idle"
  /\ \E c \in CPUS :
       /\ online[c] /\ irq_enabled[c]
       /\ entered_by[c] = "handler"

\* a running send of line v that has CPU c in its mask
SendRunning(c, v) ==
  \E p \in CPUS : spc[p] # "idle" /\ sline[p] = v /\ c \in smask[p]

\* C18: coalescing.  Line v is dispatched on CPU c at most as often as it was
\* sent to c, and at most once in one drain.  At the return of a drain on c
\* that was the first to dispatch v and that took the bits of two or more
\* sends of v to c, v was dispatched once.  At the return of a drain entered
\* after a send of v to c returned, v has been dispatched on c at least once.
C18_Coalescing ==
  \A c \in CPUS : \A v \in Lines :
    /\ ncalls[c][v] <= nsend[c][v]
    /\ did[c][v] <= 1
    /\ ( /\ dpc[c] = "ret"
         /\ nsend[c][v] >= 2
         /\ ~SendRunning(c, v)
         /\ v \notin ipi_mux_bits[c]
         /\ ncalls[c][v] = did[c][v] )
       => (v \in last_snap[c] /\ ncalls[c][v] = 1)
    /\ (dpc[c] = "ret" /\ \E e \in sent_at_entry[c] : e[1] = v)
       => ncalls[c][v] >= 1

\* two sends of the same line to the same CPU returned, then one drain was
\* entered and dispatched the line once
C18_Witness ==
  \E c \in CPUS : \E v \in Lines :
    /\ dpc[c] = "ret"
    /\ nsend[c][v] = 2
    /\ ~SendRunning(c, v)
    /\ << v, {c} >> \in sent_at_entry[c]
    /\ sdone[c] = sent_at_entry[c]
    /\ last_snap[c] = {v}
    /\ ipi_mux_bits[c] = {}
    /\ did[c][v] = 1
    /\ ncalls[c][v] = 1

\* ---------------------------------------------------------------------------
\* Rounding of clock rates
\* ---------------------------------------------------------------------------

\* the lowest rate min_rate + k * step_size that is not below r
NextStep(r) ==
  min_rate + ((r - min_rate + step_size - 1) \div step_size) * step_size

\* no value of the computation wraps, turns negative or is truncated
NoWrap ==
  /\ step_size < 2 ^ DivBits
  /\ max_rate < 2 ^ (RateBits - 1)
  /\ rate < 2 ^ (RateBits - 1)
  /\ step_size > 0 => NextStep(rate) < 2 ^ (RateBits - 1)

\* C19 as stated, for the calls in which nothing wraps or is truncated: for a
\* range clock with min_rate <= max_rate and step_size > 0 the returned rate
\* is within [min_rate, max_rate] and is min_rate plus a whole multiple of
\* step_size: min_rate for a rate at or below it, max_rate for a rate at or
\* above it, the next step for a rate in between; for a discrete clock it is
\* the requested rate.
C19_RoundRate ==
  (round_pc = "returned" /\ NoWrap) =>
    /\ clk_type = SBI_CLK_TYPE_DISCRETE => round_ret = rate
    /\ (clk_type = SBI_CLK_TYPE_RANGE /\ min_rate <= max_rate /\ step_size > 0) =>
         /\ min_rate <= round_ret /\ round_ret <= max_rate
         /\ (round_ret - min_rate) % step_size = 0
         /\ rate <= min_rate => round_ret = min_rate
         /\ rate >= max_rate => round_ret = max_rate
         /\ (min_rate < rate /\ rate < max_rate) => round_ret = NextStep(rate)

====
